---- MODULE Spec2Model ----
(***************************************************************************)
(* rustgrad: a scalar reverse-mode automatic-differentiation engine        *)
(* (src/src/engine.rs, src/src/engine/inner.rs), the multilayer perceptron *)
(* built on it (src/src/nn.rs) and the squared-error loss (src/src/lib.rs).*)
(*                                                                         *)
(* Rc<RefCell<ValInner>> pointers are indices into the arena `nodes`; two  *)
(* handles alias exactly when they hold the same index.  An f32 is a      *)
(* fixed-point number: the integer v stands for v / Scale.                 *)
(***************************************************************************)
EXTENDS Integers, Sequences, FiniteSets, TLC

VARIABLES
    nodes,      \* the heap of ValInner cells, in allocation order
    fault,      \* "none", or the panic that ended the program
    last,       \* the call that has just returned: its name, its root and the heap before it
                \* (backward), its arguments' lengths (loss)
    first,      \* the first backward() call since the last change of a value: root and heap after it
    calls,      \* how many calls of each kind were made so far
    owned,      \* the handles a program without clones still holds (not yet moved)
    mlp,        \* the MLP: the sizes it was built from and its layers, each a sequence of neurons
    out,        \* the handles returned by the last MLP::call / loss
    ins,        \* the handles the caller passed to the last MLP::call
    acts,       \* the inputs of each layer in the last MLP::call, then its result
    rng         \* state of the random number generator

vars == <<nodes, fault, last, first, calls, owned, mlp, out, ins, acts, rng>>

----------------------------------------------------------------------------
(* Bounds *)

\* Spec: calls of Val::new, of the other non-backward methods, of backward
MaxLeaves == 1
MaxOps == 1
MaxBackward == 2

\* SpecExpr: the same for a program that moves its handles
ExprLeaves == 1
ExprOps == 1
ExprBackward == 1

\* SpecNN, SpecShape: neurons per layer, layers per network; SpecNN: calls of
\* MLP::call, loss, zero_grad and the update step, calls of backward
MaxWidth == 2
MaxLayers == 2
NNOps == 2
NNBackward == 2

\* SpecInput: calls of backward
InputBackward == 1

----------------------------------------------------------------------------
(* f32 arithmetic, fixed point *)

Scale == 100

Vals == {2 * Scale, 3 * Scale}
Exps == {-Scale, 2 * Scale}

Abs(x) == IF x < 0 THEN -x ELSE x

\* the element of a one-element set. Only({F(x) : x \in {e}}) is F(e) with e
\* evaluated once, however often F uses x.
Only(S) == CHOOSE x \in S : TRUE

\* n / d rounded to nearest, d > 0
RDiv(n, d) == IF n >= 0 THEN (n + d \div 2) \div d ELSE -((d \div 2 - n) \div d)

\* a * b: |a| |b| / Scale rounded to nearest, with the sign of the product.
\* The whole and the fractional part of |a| are multiplied apart, so that only
\* the result has to fit the integers of the checker.
FMul(a, b) ==
    LET m == (Abs(a) \div Scale) * Abs(b) + RDiv((Abs(a) % Scale) * Abs(b), Scale)
    IN IF (a < 0) = (b < 0) THEN m ELSE -m

RECURSIVE FPowN(_, _)
FPowN(base, n) ==
    IF n = 0 THEN Scale
    ELSE IF n > 0 THEN FMul(base, FPowN(base, n - 1))
    ELSE LET p == FPowN(base, -n) IN IF p = 0 THEN 0 ELSE RDiv(Scale * Scale, p)

\* base.pow(n) is finite: a zero base with a negative exponent gives inf, which
\* FPowN cannot represent; callers draw only inputs for which this holds
FPowFinite(base, n) == n >= 0 \/ FPowN(base, -n) # 0

\* f32::pow for whole exponents
FPow(base, exponent) == FPowN(base, exponent \div Scale)

\* f32::tanh: the (3,2) Pade approximant x(15+x^2)/(15+6x^2), saturating at +-1
FTanh(x) ==
    IF x >= 3 * Scale THEN Scale
    ELSE IF x <= -3 * Scale THEN -Scale
    ELSE LET t == RDiv(x * (15 * Scale * Scale + x * x), 15 * Scale * Scale + 6 * x * x)
         IN IF t > Scale THEN Scale ELSE IF t < -Scale THEN -Scale ELSE t

\* f32::exp: the (2,2) Pade approximant (12+6x+x^2)/(12-6x+x^2) on [-3,3]
FExp(x) ==
    LET c == IF x > 3 * Scale THEN 3 * Scale ELSE IF x < -3 * Scale THEN -3 * Scale ELSE x
    IN RDiv(Scale * (12 * Scale * Scale + 6 * Scale * c + c * c),
            12 * Scale * Scale - 6 * Scale * c + c * c)

----------------------------------------------------------------------------
(* ValInner and the operators that allocate nodes (engine/inner.rs) *)

ValInner(data, op, left, right, aux) ==
    [data |-> data, grad |-> 0, op |-> op, left |-> left, right |-> right, aux |-> aux]

Leaf(data) == ValInner(data, "Leaf", 0, 0, 0)

\* Each operator takes a heap and returns the heap with the result appended;
\* the result's handle is Len of the returned heap.
InnerAdd(h, l, r) == Append(h, ValInner(h[l].data + h[r].data, "Add", l, r, 0))

InnerMul(h, l, r) == Append(h, ValInner(FMul(h[l].data, h[r].data), "Mul", l, r, 0))

InnerNeg(h, v) ==
    LET h1 == Append(h, Leaf(-Scale)) IN InnerMul(h1, v, Len(h1))

InnerSub(h, l, r) ==
    LET h1 == InnerNeg(h, r) IN InnerAdd(h1, l, Len(h1))

InnerPow(h, base, exponent) ==
    Append(h, ValInner(FPow(h[base].data, exponent), "Pow", base, 0, exponent))

InnerDiv(h, l, r) ==
    LET h1 == InnerPow(h, r, -Scale) IN InnerMul(h1, l, Len(h1))

InnerTanh(h, v) ==
    LET t == FTanh(h[v].data) IN Append(h, ValInner(t, "Tanh", v, 0, t))

InnerRelu(h, v) ==
    LET d == IF h[v].data < 0 THEN 0 ELSE h[v].data
    IN Append(h, ValInner(d, "ReLU", v, 0, d))

InnerExp(h, v) ==
    LET e == FExp(h[v].data) IN Append(h, ValInner(e, "Exp", v, 0, e))

----------------------------------------------------------------------------
(* The backward pass (engine/inner.rs) *)

\* `=` in place of `+=`
AccumulateOverwrites(old, contribution) == contribution

\* `+=` on a gradient field
Accumulate(old, contribution) == old + contribution

\* the other operand's data left out of the product
MulLocalDropsFactor(other, grad) == grad

\* d(l*r)/d(operand): the other operand's data times the upstream gradient
MulLocal(other, grad) == FMul(other, grad)

\* both slots of an Add hold the same cell: grad += g; grad += g
AddAliased(old, grad) == Accumulate(Accumulate(old, grad), grad)

\* one of the two contributions left out: grad += data * g
MulAliasedOnce(old, data, grad) == old + FMul(data, grad)

\* both slots of a Mul hold the same cell: grad += 2.0 * data * g
MulAliased(old, data, grad) == Accumulate(old, FMul(FMul(2 * Scale, data), grad))

\* the single operand of Tanh / Exp / Pow / ReLU
UnaryLocal(node, operand, grad) ==
    CASE node.op = "Tanh" -> FMul(Scale - FMul(node.aux, node.aux), grad)
      [] node.op = "Exp" -> FMul(node.aux, grad)
      [] node.op = "Pow" -> FMul(FMul(node.aux, FPow(operand.data, node.aux - Scale)), grad)
      [] node.op = "ReLU" -> FMul(node.aux, grad)

\* RefCell::borrow_mut on a cell that is already borrowed panics
Panic(st) == [st EXCEPT !.ok = FALSE]

RECURSIVE BackwardInner(_, _)
RECURSIVE OpBackward(_, _, _)

\* ValInner::backward_inner on cell v, which the caller has borrowed.
\* st = [n: heap, held: cells mutably borrowed, ok: no panic so far,
\*       log: the calls of Op::backward so far, each with its cell and upstream gradient]
BackwardInner(st, v) ==
    IF ~st.ok \/ st.n[v].op = "Leaf" THEN st ELSE OpBackward(st, v, st.n[v].grad)

\* Op::backward of cell v's producer with upstream gradient grad
OpBackward(st, v, grad) ==
    LET node == st.n[v]
        l == node.left
        r == node.right
        sl == [st EXCEPT !.log = Append(@, [v |-> v, grad |-> grad])]
    IN
    IF node.op \in {"Add", "Mul"} THEN
        IF l = r THEN
            IF l \in st.held THEN Panic(sl)
            ELSE
                LET g == IF node.op = "Add"
                         THEN AddAliased(st.n[l].grad, grad)
                         ELSE MulAliased(st.n[l].grad, st.n[l].data, grad)
                IN Only({[s3 EXCEPT !.held = st.held] :
                          s3 \in {BackwardInner(s2, l) :
                                  s2 \in {BackwardInner(s1, l) :
                                          s1 \in {[sl EXCEPT !.n[l].grad = g,
                                                             !.held = @ \cup {l}]}}}})
        ELSE
            IF l \in st.held \/ r \in st.held THEN Panic(sl)
            ELSE
                LET gl == IF node.op = "Add"
                          THEN Accumulate(st.n[l].grad, grad)
                          ELSE Accumulate(st.n[l].grad, MulLocal(st.n[r].data, grad))
                    gr == IF node.op = "Add"
                          THEN Accumulate(st.n[r].grad, grad)
                          ELSE Accumulate(st.n[r].grad, MulLocal(st.n[l].data, grad))
                IN Only({[s3 EXCEPT !.held = st.held] :
                          s3 \in {BackwardInner(s2, r) :
                                  s2 \in {BackwardInner(s1, l) :
                                          s1 \in {[sl EXCEPT !.n[l].grad = gl,
                                                             !.n[r].grad = gr,
                                                             !.held = @ \cup {l, r}]}}}})
    ELSE
        IF l \in st.held THEN Panic(sl)
        ELSE
            Only({[s2 EXCEPT !.held = st.held] :
                    s2 \in {BackwardInner(s1, l) :
                            s1 \in {[sl EXCEPT
                                        !.n[l].grad = Accumulate(@, UnaryLocal(node, st.n[l], grad)),
                                        !.held = @ \cup {l}]}}})

\* Val::backward: borrow the root, set its gradient to 1.0, propagate
ValBackward(h, root) ==
    Only({BackwardInner(st, root) :
            st \in {[n |-> [h EXCEPT ![root].grad = Scale], held |-> {root}, ok |-> TRUE,
                     log |-> <<>>]}})

----------------------------------------------------------------------------
(* Val: the public handle and its operator forms (engine.rs) *)

\* T: Into<Val>.  An owned Val converts to itself; a &Val converts through
\* From<&Val> for f32 and From<T: Into<f32>> for Val, that is Val::new(val.data());
\* an f32 converts to Val::new.  Returns the heap and the handle.
IntoVal(h, kind, x) ==
    CASE kind = "Val" -> [h |-> h, v |-> x]
      [] kind = "&Val" -> [h |-> Append(h, Leaf(h[x].data)), v |-> Len(h) + 1]
      [] kind = "f32" -> [h |-> Append(h, Leaf(x)), v |-> Len(h) + 1]

Kinds == {"Val", "&Val", "f32"}

\* Add<T> for Val
AddT(h, l, k, x) == LET c == IntoVal(h, k, x) IN InnerAdd(c.h, l, c.v)

\* Add<f32> for &Val
AddRefF32(h, l, x) == LET h1 == Append(h, Leaf(x)) IN InnerAdd(h1, l, Len(h1))

\* Add for &Val
AddRefRef(h, l, r) == InnerAdd(h, l, r)

\* Add<&Val> for f32, Add<Val> for f32
F32Add(h, x, r) == LET h1 == Append(h, Leaf(x)) IN InnerAdd(h1, Len(h1), r)

\* Sub<T> for Val, Sub<T> for &Val
SubT(h, l, k, x) == LET c == IntoVal(h, k, x) IN InnerSub(c.h, l, c.v)

\* Sub<Val> for f32
F32Sub(h, x, r) == LET h1 == Append(h, Leaf(x)) IN InnerSub(h1, Len(h1), r)

\* Mul for Val, Mul for &Val, Mul<&Val> for Val
MulVal(h, l, r) == InnerMul(h, l, r)

\* Mul<Val> for f32, Mul<&Val> for f32
F32Mul(h, x, r) == LET h1 == Append(h, Leaf(x)) IN InnerMul(h1, Len(h1), r)

\* Mul<f32> for &Val
MulRefF32(h, l, x) == LET h1 == Append(h, Leaf(x)) IN InnerMul(h1, l, Len(h1))

\* Div<T> for Val, Div<T> for &Val
DivT(h, l, k, x) == LET c == IntoVal(h, k, x) IN InnerDiv(c.h, l, c.v)

\* Div<Val> for f32
F32Div(h, x, r) == LET h1 == Append(h, Leaf(x)) IN InnerDiv(h1, Len(h1), r)

\* Val::add_data
AddData(h, i, d) == [h EXCEPT ![i].data = @ + d]

\* AddAssign<T> for Val: self.add_data(rhs.into().data()); the converted
\* right-hand side is dropped, no cell joins the graph
AddAssignT(h, i, k, x) == LET c == IntoVal(h, k, x) IN AddData(h, i, c.h[c.v].data)

\* Val::zero_grad
ZeroGrad(h, i) == [h EXCEPT ![i].grad = 0]

----------------------------------------------------------------------------
(* The heaps the repository's tests build before they call backward() *)

\* test_expression: a = 1, b = 2, c = 3, the literal 3.0 = 4, x = 5
TestExpression ==
    LET h1 == <<Leaf(2 * Scale), Leaf(2 * Scale)>>
        h2 == AddRefRef(h1, 2, 1)
    IN MulRefF32(h2, 3, 3 * Scale)

\* test_add_itself: a = 1, b = 2, the literal 2.0 = 3, -1.0 = 4, -(2.0) = 5, c = 6
TestAddItself ==
    LET h1 == <<Leaf(3 * Scale)>>
        h2 == MulVal(h1, 1, 1)
        h3 == AddAssignT(h2, 2, "&Val", 1)
    IN SubT(h3, 2, "f32", 2 * Scale)

Programs == {<<>>, TestExpression, TestAddItself}

----------------------------------------------------------------------------
(* The program: calls of the public API on the heap *)

\* Only finite values are drawn: no Pow cell whose value or derivative is inf
FiniteCell(h, i) ==
    h[i].op = "Pow" =>
        /\ FPowFinite(h[h[i].left].data, h[i].aux \div Scale)
        /\ FPowFinite(h[h[i].left].data, (h[i].aux \div Scale) - 1)

Finite(h) == \A i \in 1..Len(h) : FiniteCell(h, i)

Handles == 1..Len(nodes)

\* the right-hand sides of kind k a caller can pass
Rhs(k) == IF k = "f32" THEN Vals ELSE Handles

NoLast == [call |-> "none", root |-> 0, pre |-> <<>>, args |-> <<>>]
NoFirst == [root |-> 0, post |-> <<>>, count |-> 0]
NoMLP == [sizes |-> <<>>, layers |-> <<>>]

Running == fault = "none"

\* a call other than backward() left heap h
Call(h) ==
    /\ Running
    /\ calls.op < MaxOps
    /\ Finite(h)
    /\ nodes' = h
    /\ calls' = [calls EXCEPT !.op = @ + 1]
    /\ last' = NoLast
    /\ UNCHANGED <<fault, first, owned, mlp, out, ins, acts, rng>>

\* an operator returned heap h
Alloc(h) == Call(h)

NewVal ==
    /\ Running
    /\ calls.leaf < MaxLeaves
    /\ \E v \in Vals : nodes' = Append(nodes, Leaf(v))
    /\ calls' = [calls EXCEPT !.leaf = @ + 1]
    /\ last' = NoLast
    /\ UNCHANGED <<fault, first, owned, mlp, out, ins, acts, rng>>

ValTanh == \E i \in Handles : Alloc(InnerTanh(nodes, i))

ValRelu == \E i \in Handles : Alloc(InnerRelu(nodes, i))

ValExp == \E i \in Handles : Alloc(InnerExp(nodes, i))

ValNeg == \E i \in Handles : Alloc(InnerNeg(nodes, i))

ValPow == \E i \in Handles, e \in Exps : Alloc(InnerPow(nodes, i, e))

ValAddT == \E l \in Handles, k \in Kinds : \E x \in Rhs(k) : Alloc(AddT(nodes, l, k, x))

ValAddRefF32 == \E l \in Handles, x \in Vals : Alloc(AddRefF32(nodes, l, x))

ValAddRefRef == \E l \in Handles, r \in Handles : Alloc(AddRefRef(nodes, l, r))

ValF32Add == \E x \in Vals, r \in Handles : Alloc(F32Add(nodes, x, r))

ValSubT == \E l \in Handles, k \in Kinds : \E x \in Rhs(k) : Alloc(SubT(nodes, l, k, x))

ValF32Sub == \E x \in Vals, r \in Handles : Alloc(F32Sub(nodes, x, r))

ValMulVal == \E l \in Handles, r \in Handles : Alloc(MulVal(nodes, l, r))

ValF32Mul == \E x \in Vals, r \in Handles : Alloc(F32Mul(nodes, x, r))

ValMulRefF32 == \E l \in Handles, x \in Vals : Alloc(MulRefF32(nodes, l, x))

ValDivT == \E l \in Handles, k \in Kinds : \E x \in Rhs(k) : Alloc(DivT(nodes, l, k, x))

ValF32Div == \E x \in Vals, r \in Handles : Alloc(F32Div(nodes, x, r))

ValAddAssign ==
    \E i \in Handles, k \in Kinds : \E x \in Rhs(k) : Call(AddAssignT(nodes, i, k, x))

ValZeroGrad == \E i \in Handles : nodes[i].grad # 0 /\ Call(ZeroGrad(nodes, i))

\* Val::backward on handle root
Backward(root) ==
    /\ Running
    /\ calls.back < MaxBackward
    /\ \E st \in {ValBackward(nodes, root)} :
          /\ nodes' = st.n
          /\ fault' = IF st.ok THEN "none" ELSE "BorrowMutError"
    /\ last' = [call |-> "backward", root |-> root, pre |-> nodes, args |-> <<>>]
    /\ calls' = [calls EXCEPT !.back = @ + 1]
    /\ UNCHANGED <<first, owned, mlp, out, ins, acts, rng>>

ValBackwardCall == \E root \in Handles : Backward(root)

Init ==
    /\ nodes \in Programs
    /\ fault = "none"
    /\ last = NoLast
    /\ first = NoFirst
    /\ calls = [leaf |-> 0, op |-> 0, back |-> 0]
    /\ owned = {}
    /\ mlp = NoMLP
    /\ out = <<>>
    /\ ins = <<>>
    /\ acts = <<>>
    /\ rng = 0

Next ==
    \/ NewVal
    \/ ValTanh
    \/ ValRelu
    \/ ValExp
    \/ ValNeg
    \/ ValPow
    \/ ValAddT
    \/ ValAddRefF32
    \/ ValAddRefRef
    \/ ValF32Add
    \/ ValSubT
    \/ ValF32Sub
    \/ ValMulVal
    \/ ValF32Mul
    \/ ValMulRefF32
    \/ ValDivT
    \/ ValF32Div
    \/ ValAddAssign
    \/ ValZeroGrad
    \/ ValBackwardCall

Spec == Init /\ [][Next]_vars

----------------------------------------------------------------------------
(* A program that never clones a handle: an operator taking `self` by value *)
(* moves its operands, one taking &self leaves them with the caller         *)

\* the caller is left with the handles `keep` and the result of heap h
Moved(h, keep, budget) ==
    /\ Running
    /\ calls.op < budget
    /\ nodes' = h
    /\ owned' = keep \cup {Len(h)}
    /\ calls' = [calls EXCEPT !.op = @ + 1]
    /\ last' = NoLast
    /\ UNCHANGED <<fault, first, mlp, out, ins, acts, rng>>

ExprNew ==
    /\ Running
    /\ calls.leaf < ExprLeaves
    /\ \E v \in Vals : nodes' = Append(nodes, Leaf(v))
    /\ owned' = owned \cup {Len(nodes) + 1}
    /\ calls' = [calls EXCEPT !.leaf = @ + 1]
    /\ last' = NoLast
    /\ UNCHANGED <<fault, first, mlp, out, ins, acts, rng>>

\* l + r on owned handles (Add<T> for Val, T = Val)
ExprAdd ==
    \E l \in owned : \E r \in owned \ {l} :
        Moved(AddT(nodes, l, "Val", r), owned \ {l, r}, ExprOps)

\* l * r on owned handles (Mul for Val)
ExprMul ==
    \E l \in owned : \E r \in owned \ {l} :
        Moved(MulVal(nodes, l, r), owned \ {l, r}, ExprOps)

\* &l * x with a literal x (Mul<f32> for &Val)
ExprMulF32 ==
    \E l \in owned, x \in Vals : Moved(MulRefF32(nodes, l, x), owned, ExprOps)

\* &l - x with a literal x (Sub<T> for &Val, T = f32)
ExprSubF32 ==
    \E l \in owned, x \in Vals : Moved(SubT(nodes, l, "f32", x), owned, ExprOps)

\* &x * &x (Mul for &Val)
ExprSquare == \E x \in owned : Moved(MulVal(nodes, x, x), owned, ExprOps)

\* &x + &x (Add for &Val)
ExprDouble == \E x \in owned : Moved(AddRefRef(nodes, x, x), owned, ExprOps)

\* l += &r (AddAssign<T> for Val, T = &Val)
ExprAddAssign ==
    /\ Running
    /\ calls.op < ExprOps
    /\ \E l \in owned, r \in owned : nodes' = AddAssignT(nodes, l, "&Val", r)
    /\ calls' = [calls EXCEPT !.op = @ + 1]
    /\ last' = NoLast
    /\ UNCHANGED <<fault, first, owned, mlp, out, ins, acts, rng>>

ExprBackwardCall ==
    /\ calls.back < ExprBackward
    /\ \E root \in owned : Backward(root)

\* The tests keep using the last value they built
InitExpr ==
    /\ nodes \in Programs
    /\ owned = IF nodes = <<>> THEN {} ELSE {Len(nodes)}
    /\ fault = "none"
    /\ last = NoLast
    /\ first = NoFirst
    /\ calls = [leaf |-> 0, op |-> 0, back |-> 0]
    /\ mlp = NoMLP
    /\ out = <<>>
    /\ ins = <<>>
    /\ acts = <<>>
    /\ rng = 0

NextExpr ==
    \/ ExprNew
    \/ ExprAdd
    \/ ExprMul
    \/ ExprMulF32
    \/ ExprSubF32
    \/ ExprSquare
    \/ ExprDouble
    \/ ExprAddAssign
    \/ ExprBackwardCall

SpecExpr == InitExpr /\ [][NextExpr]_vars

----------------------------------------------------------------------------
(* Neuron, Layer, MLP (nn.rs) and loss (lib.rs) *)

\* rand::thread_rng(): a generator whose state is r; gen_range(-1.0..=1.0)
\* yields one of -1, -0.5, 0, 0.5, 1
GenRange(r) == ((r % 5) - 2) * (Scale \div 2)

NextRng(r) == (3 * r + 1) % 7

Seeds == {0, 3}

\* n values drawn in turn, each wrapped in a new leaf: st = [h, r]
RECURSIVE DrawN(_, _)
DrawN(st, n) ==
    IF n = 0 THEN st
    ELSE Only({DrawN(s, n - 1) :
                 s \in {[h |-> Append(st.h, Leaf(GenRange(st.r))), r |-> NextRng(st.r)]}})

\* Neuron::new: assert!(nin > 0), nin weights, then the bias
NeuronNew(st, nin) ==
    IF nin <= 0 THEN [h |-> st.h, r |-> st.r, neuron |-> <<>>, ok |-> FALSE]
    ELSE LET base == Len(st.h)
         IN Only({[h |-> d.h, r |-> d.r, ok |-> TRUE,
                   neuron |-> [weights |-> [i \in 1..nin |-> base + i],
                               bias |-> base + nin + 1]] :
                  d \in {DrawN(st, nin + 1)}})

\* Layer::new: nout neurons of nin inputs; st = [h, r, neurons, ok]
RECURSIVE LayerNew(_, _, _)
LayerNew(st, nin, nout) ==
    IF nout = 0 \/ ~st.ok THEN st
    ELSE Only({LayerNew(s, nin, nout - 1) :
                 s \in {[h |-> n.h, r |-> n.r, ok |-> n.ok,
                         neurons |-> IF n.ok THEN Append(st.neurons, n.neuron)
                                     ELSE st.neurons] :
                        n \in {NeuronNew([h |-> st.h, r |-> st.r], nin)}}})

\* MLP::new: one layer per window of two sizes; st = [h, r, layers, ok]
RECURSIVE MLPNew(_, _, _)
MLPNew(st, sizes, i) ==
    IF i + 1 > Len(sizes) \/ ~st.ok THEN st
    ELSE Only({MLPNew(s, sizes, i + 1) :
                 s \in {[h |-> l.h, r |-> l.r, ok |-> l.ok,
                         layers |-> IF l.ok THEN Append(st.layers, l.neurons)
                                    ELSE st.layers] :
                        l \in {LayerNew([h |-> st.h, r |-> st.r, neurons |-> <<>>,
                                         ok |-> TRUE], sizes[i], sizes[i + 1])}}})

\* x * w * &self.bias
NeuronTerm(h, neuron, input, i) ==
    Only({MulVal(h1, Len(h1), neuron.bias) : h1 \in {MulVal(h, input[i], neuron.weights[i])}})

\* the map/reduce of Neuron::call: the terms are built one by one, each added
\* to the accumulator as soon as it exists (Add<T> for Val, T = Val); st = [h, acc]
RECURSIVE NeuronSum(_, _, _, _)
NeuronSum(st, neuron, input, i) ==
    IF i > Len(input) THEN st
    ELSE Only({NeuronSum([h |-> h2, acc |-> Len(h2)], neuron, input, i + 1) :
                 h2 \in {IF i = 1 THEN h1 ELSE AddT(h1, st.acc, "Val", Len(h1)) :
                         h1 \in {NeuronTerm(st.h, neuron, input, i)}}})

\* Neuron::call: assert_eq!(input.len(), weights.len()); zip, map, reduce, tanh, unwrap
NeuronCall(h, neuron, input) ==
    IF Len(input) # Len(neuron.weights) \/ Len(input) = 0
    THEN [h |-> h, v |-> 0, ok |-> FALSE]
    ELSE Only({[h |-> t, v |-> Len(t), ok |-> TRUE] :
                 t \in {InnerTanh(s.h, s.acc) :
                        s \in {NeuronSum([h |-> h, acc |-> 0], neuron, input, 1)}}})

\* Layer::call: every neuron on the same input; st = [h, outs, ok]
RECURSIVE LayerCall(_, _, _, _)
LayerCall(st, neurons, input, j) ==
    IF j > Len(neurons) \/ ~st.ok THEN st
    ELSE Only({LayerCall(s, neurons, input, j + 1) :
                 s \in {[h |-> c.h, ok |-> c.ok,
                         outs |-> IF c.ok THEN Append(st.outs, c.v) ELSE st.outs] :
                        c \in {NeuronCall(st.h, neurons[j], input)}}})

\* the fold of MLP::call over the layers; st = [h, acts, ok]
RECURSIVE MLPFold(_, _, _)
MLPFold(st, layers, i) ==
    IF i > Len(layers) \/ ~st.ok THEN st
    ELSE Only({MLPFold(s, layers, i + 1) :
                 s \in {[h |-> l.h, ok |-> l.ok, acts |-> Append(st.acts, l.outs)] :
                        l \in {LayerCall([h |-> st.h, outs |-> <<>>, ok |-> TRUE],
                                          layers[i], st.acts[Len(st.acts)], 1)}}})

\* input.iter().map(|i| i.into()): every &Val becomes Val::new(i.data())
RECURSIVE IntoVals(_, _, _)
IntoVals(st, input, i) ==
    IF i > Len(input) THEN st
    ELSE Only({IntoVals(s, input, i + 1) :
                 s \in {[h |-> c.h, vs |-> Append(st.vs, c.v)] :
                        c \in {IntoVal(st.h, "&Val", input[i])}}})

\* the caller's handles cloned into the graph instead of converted
MLPCallSharesInput(h, layers, input) ==
    Only({MLPFold(s, layers, 1) : s \in {[h |-> h, acts |-> <<input>>, ok |-> TRUE]}})

\* MLP::call
MLPCall(h, layers, input) ==
    Only({MLPFold(s, layers, 1) :
            s \in {[h |-> c.h, acts |-> <<c.vs>>, ok |-> TRUE] :
                   c \in {IntoVals([h |-> h, vs |-> <<>>], input, 1)}}})

\* Neuron::parameters
NeuronParametersNoBias(neuron) == neuron.weights

NeuronParameters(neuron) == Append(neuron.weights, neuron.bias)

\* Layer::parameters
RECURSIVE LayerParameters(_)
LayerParameters(neurons) ==
    IF neurons = <<>> THEN <<>>
    ELSE NeuronParameters(Head(neurons)) \o LayerParameters(Tail(neurons))

\* MLP::parameters
RECURSIVE MLPParameters(_)
MLPParameters(layers) ==
    IF layers = <<>> THEN <<>>
    ELSE LayerParameters(Head(layers)) \o MLPParameters(Tail(layers))

\* Neuron::zero_grad, Layer::zero_grad, MLP::zero_grad: Val::zero_grad on every
\* weight and bias
MLPZeroGrad(h, layers) ==
    Only({[n \in 1..Len(h) |-> IF \E i \in 1..Len(ps) : ps[i] = n
                                 THEN ZeroGrad(h, n)[n] ELSE h[n]] :
            ps \in {MLPParameters(layers)}})

\* (pred - actual).pow(2.0) on two &Val
LossTerm(h, pred, actual, i) ==
    Only({InnerPow(h1, Len(h1), 2 * Scale) : h1 \in {SubT(h, pred[i], "&Val", actual[i])}})

Min(a, b) == IF a < b THEN a ELSE b

\* the map/reduce of loss over the first n pairs; st = [h, acc]
RECURSIVE LossSum(_, _, _, _, _)
LossSum(st, pred, actual, i, n) ==
    IF i > n THEN st
    ELSE Only({LossSum([h |-> h2, acc |-> Len(h2)], pred, actual, i + 1, n) :
                 h2 \in {IF i = 1 THEN h1 ELSE AddT(h1, st.acc, "Val", Len(h1)) :
                         h1 \in {LossTerm(st.h, pred, actual, i)}}})

\* loss: zip, map, reduce, unwrap
Loss(h, pred, actual) ==
    LET n == Min(Len(pred), Len(actual))
    IN IF n = 0 THEN [h |-> h, v |-> 0, ok |-> FALSE]
       ELSE Only({[h |-> s.h, v |-> s.acc, ok |-> TRUE] :
                  s \in {LossSum([h |-> h, acc |-> 0], pred, actual, 1, n)}})

\* ALPHA = 0.035
Alpha == (35 * Scale) \div 1000

\* p.add_data(-ALPHA * p.grad()) for every parameter; the parameters are
\* distinct cells
Update(h, ps) ==
    [n \in 1..Len(h) |->
        IF \E i \in 1..Len(ps) : ps[i] = n
        THEN AddData(h, n, FMul(-Alpha, h[n].grad))[n]
        ELSE h[n]]

\* the layer sizes of the example
ExampleSizes == <<3, 5, 5, 1>>

Widths == 0..MaxWidth

Shapes == UNION {[1..n -> Widths] : n \in 1..(MaxLayers + 1)}

\* the brightness of a light, the target
InVals == {0, Scale}

\* n new leaves, the i-th holding xs[i]; st = [h, vs]
RECURSIVE NewVals(_, _, _)
NewVals(st, xs, i) ==
    IF i > Len(xs) THEN st
    ELSE Only({NewVals(s, xs, i + 1) :
                 s \in {[h |-> Append(st.h, Leaf(xs[i])), vs |-> Append(st.vs, Len(st.h) + 1)]}})

Built == mlp.sizes # <<>>

Build(shapes) ==
    /\ Running
    /\ ~Built
    /\ \E sizes \in shapes :
          \E m \in {MLPNew([h |-> nodes, r |-> rng, layers |-> <<>>, ok |-> TRUE], sizes, 1)} :
             /\ nodes' = m.h
             /\ rng' = m.r
             /\ mlp' = [sizes |-> sizes, layers |-> m.layers]
             /\ fault' = IF m.ok THEN "none" ELSE "assert"
    /\ last' = NoLast
    /\ UNCHANGED <<first, calls, owned, out, ins, acts>>

NNNew == Build(Shapes)

\* the caller builds its input values and calls the network on them
Forward(len, budget) ==
    /\ Running
    /\ Built
    /\ calls.op < budget
    /\ \E xs \in [1..len -> InVals] :
          \E i \in {NewVals([h |-> nodes, vs |-> <<>>], xs, 1)} :
          \E c \in {MLPCall(i.h, mlp.layers, i.vs)} :
             /\ nodes' = c.h
             /\ ins' = i.vs
             /\ acts' = c.acts
             /\ out' = IF c.ok THEN c.acts[Len(c.acts)] ELSE <<>>
             /\ fault' = IF c.ok THEN "none" ELSE "assert"
    /\ calls' = [calls EXCEPT !.op = @ + 1]
    /\ last' = NoLast
    /\ UNCHANGED <<first, owned, mlp, rng>>

NNCall ==
    /\ Built
    /\ \E len \in {mlp.sizes[1], mlp.sizes[1] + 1} : Forward(len, NNOps)

\* loss on the first np results of the network and na new targets
LossOn(budget) ==
    /\ Running
    /\ calls.op < budget
    /\ out # <<>>
    /\ \E np \in 0..Len(out), na \in 0..MaxWidth, y \in InVals :
          \E t \in {NewVals([h |-> nodes, vs |-> <<>>], [i \in 1..na |-> y], 1)} :
          \E l \in {Loss(t.h, SubSeq(out, 1, np), t.vs)} :
             /\ nodes' = l.h
             /\ out' = IF l.ok THEN <<l.v>> ELSE <<>>
             /\ fault' = IF l.ok THEN "none" ELSE "unwrap"
             /\ last' = [call |-> "loss", root |-> 0, pre |-> <<>>, args |-> <<np, na>>]
    /\ calls' = [calls EXCEPT !.op = @ + 1]
    /\ UNCHANGED <<first, owned, mlp, ins, acts, rng>>

NNLoss == LossOn(NNOps)

NNZeroGrad ==
    /\ Running
    /\ Built
    /\ calls.op < NNOps
    /\ nodes' = MLPZeroGrad(nodes, mlp.layers)
    /\ calls' = [calls EXCEPT !.op = @ + 1]
    /\ last' = [call |-> "zero_grad", root |-> 0, pre |-> <<>>, args |-> <<>>]
    /\ UNCHANGED <<fault, first, owned, mlp, out, ins, acts, rng>>

NNStep ==
    /\ Running
    /\ Built
    /\ calls.op < NNOps
    /\ \E ps \in {MLPParameters(mlp.layers)} : nodes' = Update(nodes, ps)
    /\ calls' = [calls EXCEPT !.op = @ + 1]
    /\ last' = NoLast
    /\ first' = NoFirst
    /\ UNCHANGED <<fault, owned, mlp, out, ins, acts, rng>>

\* backward() on a value the network or the loss returned
BackwardOn(budget) ==
    /\ Running
    /\ calls.back < budget
    /\ \E j \in 1..Len(out) :
          \E st \in {ValBackward(nodes, out[j])} :
          /\ nodes' = st.n
          /\ fault' = IF st.ok THEN "none" ELSE "BorrowMutError"
          /\ last' = [call |-> "backward", root |-> out[j], pre |-> nodes, args |-> <<>>]
          /\ first' = IF first.root = 0
                      THEN [root |-> out[j], post |-> st.n, count |-> 1]
                      ELSE [first EXCEPT !.count = @ + 1]
    /\ calls' = [calls EXCEPT !.back = @ + 1]
    /\ UNCHANGED <<owned, mlp, out, ins, acts, rng>>

NNBackwardCall == BackwardOn(NNBackward)

InitNN ==
    /\ nodes = <<>>
    /\ fault = "none"
    /\ last = NoLast
    /\ first = NoFirst
    /\ calls = [leaf |-> 0, op |-> 0, back |-> 0]
    /\ owned = {}
    /\ mlp = NoMLP
    /\ out = <<>>
    /\ ins = <<>>
    /\ acts = <<>>
    /\ rng \in Seeds

NextNN ==
    \/ NNNew
    \/ NNCall
    \/ NNLoss
    \/ NNZeroGrad
    \/ NNStep
    \/ NNBackwardCall

SpecNN == InitNN /\ [][NextNN]_vars

\* the network is built, with the sizes of the example among the shapes, and
\* called once on an input of the size it was built for
ShapeNew == Build(Shapes \cup {ExampleSizes})

ShapeCall ==
    /\ out = <<>>
    /\ Forward(mlp.sizes[1], 1)

NextShape ==
    \/ ShapeNew
    \/ ShapeCall

SpecShape == InitNN /\ [][NextShape]_vars

\* one pass of the training loop on a network: the forward pass on the
\* caller's values, the loss, the backward pass
InputCall ==
    /\ acts = <<>>
    /\ Forward(mlp.sizes[1], NNOps)

\* the loss over results of the network, once
InputLoss ==
    /\ acts # <<>>
    /\ out = acts[Len(acts)]
    /\ LossOn(NNOps)

InputBackwardCall == BackwardOn(InputBackward)

NextInput ==
    \/ NNNew
    \/ InputCall
    \/ InputLoss
    \/ InputBackwardCall

SpecInput == InitNN /\ [][NextInput]_vars

----------------------------------------------------------------------------
(* Vocabulary of the properties *)

\* the operand slots of cell n of heap h, as a sequence of handles
Slots(h, n) ==
    IF h[n].op = "Leaf" THEN <<>>
    ELSE IF h[n].op \in {"Add", "Mul"} THEN <<h[n].left, h[n].right>>
    ELSE <<h[n].left>>

Range(s) == {s[i] : i \in 1..Len(s)}

\* the cells of the expression rooted at root
RECURSIVE Reach(_, _)
Reach(h, root) ==
    {root} \cup UNION {Reach(h, c) : c \in Range(Slots(h, root))}

\* in how many operand slots of the cells in S cell n sits
Uses(h, S, n) ==
    Cardinality({<<c, i>> \in S \X {1, 2} : i <= Len(Slots(h, c)) /\ Slots(h, c)[i] = n})

\* every cell of the expression sits in at most one operand slot of it
IsTree(h, root) == \A n \in Reach(h, root) : Uses(h, Reach(h, root), n) <= 1

AddMulOnly(h, root) == \A n \in Reach(h, root) : h[n].op \in {"Leaf", "Add", "Mul"}

ZeroGrads(h) == \A n \in 1..Len(h) : h[n].grad = 0

\* the cell of the expression that has n as an operand (n # root, a tree)
Parent(h, root, n) == CHOOSE c \in Reach(h, root) : n \in Range(Slots(h, c))

\* the product of the local derivatives on the path from the root down to n
RECURSIVE TreeGrad(_, _, _)
TreeGrad(h, root, n) ==
    IF n = root THEN Scale
    ELSE LET p == Parent(h, root, n)
             other == IF h[p].left = n THEN h[p].right ELSE h[p].left
         IN IF h[p].op = "Add"
            THEN TreeGrad(h, root, p)
            ELSE FMul(h[other].data, TreeGrad(h, root, p))

\* the number of paths from the root down to n
RECURSIVE PathCount(_, _, _)
PathCount(h, root, n) ==
    IF n = root THEN 1
    ELSE LET S == Reach(h, root)
             E == {<<c, i>> \in S \X {1, 2} : i <= Len(Slots(h, c)) /\ Slots(h, c)[i] = n}
             f[T \in SUBSET E] ==
                 IF T = {} THEN 0
                 ELSE LET e == CHOOSE e \in T : TRUE
                      IN PathCount(h, root, e[1]) + f[T \ {e}]
         IN f[E]

\* what the operand in slot i of cell c receives when c passes on gradient g
LocalOf(h, c, i, g) ==
    IF h[c].op = "Add" THEN g
    ELSE IF h[c].op = "Mul" THEN FMul(h[Slots(h, c)[3 - i]].data, g)
    ELSE UnaryLocal(h[c], h[h[c].left], g)

\* the sum over all paths from the root down to n of the products of the
\* local derivatives
RECURSIVE PathSum(_, _, _)
PathSum(h, root, n) ==
    IF n = root THEN Scale
    ELSE LET S == Reach(h, root)
             E == {<<c, i>> \in S \X {1, 2} : i <= Len(Slots(h, c)) /\ Slots(h, c)[i] = n}
             f[T \in SUBSET E] ==
                 IF T = {} THEN 0
                 ELSE LET e == CHOOSE e \in T : TRUE
                      IN LocalOf(h, e[1], e[2], PathSum(h, root, e[1])) + f[T \ {e}]
         IN f[E]

\* backward() has just returned (or panicked) on last.root
Returned == last.call = "backward"

SameData(h1, h2) == \A n \in 1..Len(h1) : h2[n].data = h1[n].data

\* the handles parameters() returns
Params == Range(MLPParameters(mlp.layers))

\* the number of parameters of the first k layers of a network of these sizes
RECURSIVE ParamCount(_, _)
ParamCount(sizes, k) ==
    IF k = 0 THEN 0
    ELSE ParamCount(sizes, k - 1) + sizes[k] * sizes[k + 1] + sizes[k + 1]

\* MLP::call has returned the results held in out
Called == acts # <<>> /\ fault = "none"

----------------------------------------------------------------------------
(* Properties *)

\* C1: chain rule on a tree. After backward() on the root of an Add/Mul
\* expression in which every cell is an operand at most once, with all gradients
\* 0 before, the call returned without a panic, the root's gradient is 1, every
\* other cell's gradient is the product of the local derivatives on its path to
\* the root (Add: 1, Mul: the other operand's value), and no value changed.
\* For test_expression: x.grad = 1, c.grad = a.grad = b.grad = 3, c = 4, x = 12.
C1_ChainRuleOnTree ==
    /\ ( /\ Returned
         /\ ZeroGrads(last.pre)
         /\ AddMulOnly(last.pre, last.root)
         /\ IsTree(last.pre, last.root) )
       => /\ fault = "none"
          /\ nodes[last.root].grad = Scale
          /\ \A n \in Reach(last.pre, last.root) \ {last.root} :
                nodes[n].grad = TreeGrad(last.pre, last.root, n)
          /\ SameData(last.pre, nodes)
    /\ (Returned /\ last.pre = TestExpression /\ last.root = 5)
       => /\ nodes[5].grad = Scale
          /\ nodes[3].grad = 3 * Scale
          /\ nodes[1].grad = 3 * Scale
          /\ nodes[2].grad = 3 * Scale
          /\ nodes[3].data = 4 * Scale
          /\ nodes[5].data = 12 * Scale

\* C1 witness: backward() returned on x of test_expression, a Mul over an Add
C1_Witness ==
    /\ Returned
    /\ last.pre = TestExpression
    /\ last.root = 5
    /\ IsTree(last.pre, last.root)
    /\ nodes[1].grad = 3 * Scale

\* C2: aliased operands. After a backward() that returned, for every Mul or Add
\* cell m of the expression whose two slots hold the same leaf x, where x had
\* gradient 0, x is used nowhere else and m is reached on one path, x.grad is
\* 2 * x.value * g for the Mul and 2 * g for the Add, g being m's gradient.
\* For test_add_itself: c.grad = 1, b.grad = 1, a.grad = 6, b = 12.
C2_AliasedOperands ==
    /\ (Returned /\ fault = "none")
       => \A m \in Reach(last.pre, last.root) :
             LET x == last.pre[m].left IN
             ( /\ last.pre[m].op \in {"Add", "Mul"}
               /\ last.pre[m].right = x
               /\ last.pre[x].op = "Leaf"
               /\ last.pre[x].grad = 0
               /\ Uses(last.pre, Reach(last.pre, last.root), x) = 2
               /\ PathCount(last.pre, last.root, m) = 1 )
             => nodes[x].grad = IF last.pre[m].op = "Mul"
                                THEN FMul(2 * last.pre[x].data, nodes[m].grad)
                                ELSE 2 * nodes[m].grad
    /\ (Returned /\ last.pre = TestAddItself /\ last.root = 6)
       => /\ fault = "none"
          /\ nodes[6].grad = Scale
          /\ nodes[2].grad = Scale
          /\ nodes[1].grad = 6 * Scale
          /\ nodes[2].data = 12 * Scale

\* C2 witness: backward() returned on c of test_add_itself, b = a * a
C2_Witness ==
    /\ Returned
    /\ last.pre = TestAddItself
    /\ last.root = 6
    /\ last.pre[2].left = 1 /\ last.pre[2].right = 1
    /\ nodes[1].grad = 6 * Scale

\* C3: a backward pass runs to completion: backward() on the root of any graph
\* the operators build returns normally, without a fault from the mutable
\* borrows held on both operands during the recursion.
C3_BackwardCompletes == Returned => fault = "none"

\* the binary forms that take two handles, applied to l and x; k is how the
\* right-hand side is passed ("Val" owned, "&Val" borrowed)
BinaryForms(h, l, k, x) ==
    {AddT(h, l, k, x), SubT(h, l, k, x), DivT(h, l, k, x)}
        \cup (IF k = "&Val" THEN {AddRefRef(h, l, x)} ELSE {})
        \cup {MulVal(h, l, x)}

\* C4: operators share their operands. Every step that is an add, subtract,
\* multiply or divide of two handles, owned or borrowed, leaves a result whose
\* producer refers to the cells of both handles, and leaves every cell that
\* existed before as it was.
C4_OperatorsShareOperands ==
    [][\A l \in Handles, x \in Handles, k \in {"Val", "&Val"} :
          nodes' \in BinaryForms(nodes, l, k, x)
              => /\ {l, x} \subseteq Reach(nodes', Len(nodes'))
                 /\ \A n \in Handles : nodes'[n] = nodes[n]]_vars

\* C5: gradient reset idempotence. After zero_grad() every parameter's gradient
\* is 0; and when backward() has returned for the second time on the same root,
\* no value changed in between and the parameters' gradients were 0 before this
\* second call, every parameter holds the gradient it held after the first call.
C5_ZeroGradIdempotent ==
    /\ last.call = "zero_grad" => \A p \in Params : nodes[p].grad = 0
    /\ ( /\ Returned
         /\ fault = "none"
         /\ first.count = 2
         /\ last.root = first.root
         /\ \A p \in Params : last.pre[p].grad = 0 )
       => \A p \in Params : nodes[p].grad = first.post[p].grad

\* C6: the loss requires equal-length, non-empty sequences. loss on np
\* predictions and na targets panics when np # na and when np = 0; it returns a
\* value only when np = na and np >= 1.
C6_LossRequiresEqualLengths ==
    last.call = "loss"
        => LET np == last.args[1]
               na == last.args[2]
           IN /\ (np # na \/ np = 0) => fault # "none"
              /\ fault = "none" => (np = na /\ np >= 1 /\ out = <<Len(nodes)>>)

\* C7: a neuron computes tanh(bias + sum of input_i * weight_i). After a
\* backward() that started with all gradients 0 on the result of a neuron of the
\* last layer, the result is the tanh of a pre-activation in which the bias sits
\* in exactly one operand slot, of an Add, and each weight is multiplied with its
\* input; the bias gradient is the pre-activation's gradient and the gradient of
\* weight i is the value of input i times the pre-activation's gradient.
C7_NeuronIsTanhOfBiasPlusSum ==
    (Returned /\ fault = "none" /\ ZeroGrads(last.pre) /\ mlp.layers # <<>>
        /\ Len(acts) = Len(mlp.layers) + 1)
    => \A j \in 1..Len(acts[Len(acts)]) :
          last.root = acts[Len(acts)][j]
          => LET neuron == mlp.layers[Len(mlp.layers)][j]
                 input == acts[Len(acts) - 1]
                 pre == nodes[last.root].left
                 S == Reach(nodes, pre)
             IN /\ nodes[last.root].op = "Tanh"
                /\ Uses(nodes, S, neuron.bias) = 1
                /\ \E c \in S : nodes[c].op = "Add" /\ neuron.bias \in Range(Slots(nodes, c))
                /\ \A i \in 1..Len(input) :
                      \E c \in S : /\ nodes[c].op = "Mul"
                                   /\ Range(Slots(nodes, c)) = {input[i], neuron.weights[i]}
                /\ nodes[neuron.bias].grad = nodes[pre].grad
                /\ \A i \in 1..Len(input) :
                      nodes[neuron.weights[i]].grad = FMul(nodes[input[i]].data, nodes[pre].grad)

\* C8: network shape. A network built from sizes n0..nk, k >= 1, all above 0,
\* is built without a panic; parameters() returns the sum over the layers of
\* n_i * n_(i+1) + n_(i+1) handles, layer after layer, neuron after neuron, for
\* each neuron its n_i weights and then its bias; call() on n0 inputs returns nk
\* results. For sizes 3, 5, 5, 1: 56 parameters and 1 result.
C8_NetworkShape ==
    (Built /\ Len(mlp.sizes) >= 2 /\ \A i \in 1..Len(mlp.sizes) : mlp.sizes[i] > 0)
    => LET sizes == mlp.sizes
           k == Len(sizes) - 1
           ps == MLPParameters(mlp.layers)
       IN /\ fault = "none"
          /\ Len(ps) = ParamCount(sizes, k)
          /\ \A i \in 1..k : \A j \in 1..sizes[i + 1] :
                LET at == ParamCount(sizes, i - 1) + (j - 1) * (sizes[i] + 1)
                    neuron == mlp.layers[i][j]
                IN /\ Len(neuron.weights) = sizes[i]
                   /\ \A w \in 1..sizes[i] : ps[at + w] = neuron.weights[w]
                   /\ ps[at + sizes[i] + 1] = neuron.bias
          /\ acts # <<>> => Len(out) = sizes[k + 1]
          /\ sizes = ExampleSizes => (Len(ps) = 56 /\ (acts # <<>> => Len(out) = 1))

\* C8 witness: the network of the example, built and called on 3 inputs
C8_Witness ==
    /\ mlp.sizes = ExampleSizes
    /\ Called
    /\ Len(ins) = 3
    /\ Len(out) = 1
    /\ Len(MLPParameters(mlp.layers)) = 56

\* C9: gradient finalized before propagation. In a backward pass that starts
\* with all gradients 0 and returns, each time a cell's backward rule runs the
\* cell's gradient is already its final one, and every cell ends with the sum
\* over all paths from the root of the products of the local derivatives.
C9_FinalBeforePropagation ==
    (Returned /\ fault = "none" /\ ZeroGrads(last.pre))
        => /\ \A log \in {ValBackward(last.pre, last.root).log} :
                 \A i \in 1..Len(log) : log[i].grad = nodes[log[i].v].grad
           /\ \A n \in Reach(last.pre, last.root) :
                 nodes[n].grad = PathSum(last.pre, last.root, n)

\* the producer of a cell: operator tag, operand references, cached intermediate
Producer(c) == <<c.op, c.left, c.right, c.aux>>

\* C10: backward pass frame. backward() changes only gradient fields: every
\* cell keeps its value and its producer, the cells outside the expression of
\* the root are unchanged, the root's gradient is 1 whatever it was, and every
\* other cell of the expression holds what it held before plus what the pass
\* added to it.
C10_BackwardFrame ==
    Returned
        => /\ Len(nodes) = Len(last.pre)
           /\ \A n \in 1..Len(last.pre) :
                 /\ nodes[n].data = last.pre[n].data
                 /\ Producer(nodes[n]) = Producer(last.pre[n])
                 /\ n \notin Reach(last.pre, last.root) => nodes[n] = last.pre[n]
           /\ nodes[last.root].grad = Scale
           /\ \A n \in Reach(last.pre, last.root) \ {last.root} :
                 nodes[n].grad = last.pre[n].grad
                     + ValBackward([last.pre EXCEPT ![n].grad = 0], last.root).n[n].grad

\* C11: MLP::call keeps the caller's input out of the graph. After backward()
\* on a value derived from the network's results (a result, or the loss over
\* them), every Val the caller passed as input is outside the expression of the
\* root and is as it was before the pass, its gradient still 0; the first layer
\* was fed new leaves holding the inputs' values; and parameters of the network
\* are cells of the expression, so the pass writes their gradients.
C11_CallCopiesInput ==
    (Returned /\ ins # <<>> /\ last.root \in Range(out))
    => /\ \A k \in 1..Len(ins) :
             /\ ins[k] \notin Reach(nodes, last.root)
             /\ nodes[ins[k]] = last.pre[ins[k]]
             /\ nodes[ins[k]].grad = 0
             /\ acts[1][k] # ins[k]
             /\ nodes[acts[1][k]].op = "Leaf"
             /\ nodes[acts[1][k]].data = nodes[ins[k]].data
       /\ mlp.layers # <<>> => Params \cap Reach(nodes, last.root) # {}

\* C11 witness: backward() returned on the loss over the results of a network
\* called on the caller's values; a parameter holds a gradient, no input does
C11_Witness ==
    /\ Returned
    /\ ins # <<>>
    /\ mlp.layers # <<>>
    /\ last.root \in Range(out)
    /\ nodes[last.root].op \in {"Pow", "Add"}
    /\ \E p \in Params : nodes[p].grad # 0
    /\ \A k \in 1..Len(ins) : nodes[ins[k]].grad = 0

\* C10 witness: backward() returned on a root whose gradient was neither 0 nor
\* 1, with a cell of the expression that held a gradient and received more, and
\* a cell outside the expression
C10_Witness ==
    /\ Returned
    /\ last.pre[last.root].grad \notin {0, Scale}
    /\ \E n \in Reach(last.pre, last.root) \ {last.root} :
          last.pre[n].grad # 0 /\ nodes[n].grad # last.pre[n].grad
    /\ \E n \in 1..Len(nodes) : n \notin Reach(last.pre, last.root)

====
